---- MODULE Spec2Model ----
(***************************************************************************)
(* Model of the frontend controller layer of the town application:         *)
(*   - ConversationAreaController (src/unnamed/part_000, lines 128-250)    *)
(*   - ViewingAreaController (src/frontend/src/classes/                    *)
(*     ViewingAreaController.ts)                                           *)
(* A JavaScript array is an object: a reference (its identity) and its     *)
(* items.  The arrays a caller passes in are arbitrary, except that an     *)
(* array with the identity of the stored one is the stored one.  Player    *)
(* objects are identities 1..NumPlayers, each carrying an id; two distinct *)
(* objects may carry the same id.  Times are integers (scaled seconds).    *)
(***************************************************************************)
EXTENDS Integers, Sequences, FiniteSets, TLC

\* ------------------------------------------------------------------ bounds
NumPlayers == 3
MaxLen == 2
MaxLists == 2
MaxListeners == 2
MaxTime == 2
MaxDepth == 2
NumComponents == 2
\* time units per second in the video player
TimeScale == 2

\* ---------------------------------------------------------- value universes
\* the JavaScript value undefined (an absent topic or video)
Undefined == "<undefined>"
\* topic strings; the empty string is a defined topic
TopicStrings == {"", "fruits"}
TopicValues == TopicStrings \cup {Undefined}
AreaIds == {"a1", "a2"}
Players == 1..NumPlayers
\* the id carried by player object p: objects 1 and 2 carry the same id
PlayerId(p) == (p + 1) \div 2
PlayerIds == {PlayerId(p) : p \in Players}
ListenerIds == {"f", "g"}
CAEvents == {"topicChange", "occupantsChange"}
VAEvents == {"playbackChange", "progressChange", "videoChange"}
VideoStrings == {"v1", "v2"}
VideoValues == VideoStrings \cup {Undefined}
Times == 0..MaxTime

BoundedSeqs(S, n) == UNION {[1..k -> S] : k \in 0..n}
Range(s) == {s[i] : i \in 1..Len(s)}
Count(s, x) == Cardinality({i \in 1..Len(s) : s[i] = x})
NoCalls == <<>>
\* array objects: a reference and the items
Array(ref, items) == [ref |-> ref, items |-> items]
Arrays == [ref : 1..MaxLists, items : BoundedSeqs(Players, MaxLen)]
IdsOf(items) == [i \in 1..Len(items) |-> PlayerId(items[i])]
ConversationAreaModels ==
  [id : AreaIds, topic : TopicValues,
   occupantsByID : BoundedSeqs(PlayerIds, MaxLen)]
ViewingAreaModels ==
  [id : AreaIds, isPlaying : BOOLEAN, elapsedTimeSec : Times,
   video : VideoValues]

\* ------------------------------------------------------- program constants
ALLOWED_DRIFT == 3
NO_TOPIC_STRING == "(No topic)"

VARIABLES
  area,      \* the ConversationAreaController under test
  caLast,    \* the last operation on area: its inputs, pre-state and effects
  caSnapshot, \* the model the area was constructed from or last updated with
  viewingArea, \* the ViewingAreaController under test
  vaModel,     \* the model viewingArea was constructed from
  vaLast,      \* the last operation on viewingArea
  player,      \* the ReactPlayer of a ViewingAreaVideo and its ref
  videoLast,   \* the last event handled by the ViewingAreaVideo
  hooks,       \* the components that use the two hooks on area
  hooksLast,   \* the last step of a component or assignment to area
  emission,    \* the emission of topicChange in progress on area, if any
  frames,      \* the emissions of topicChange in progress, innermost last
  received,    \* what the topicChange listeners have been called with
  view         \* the ViewingArea component of viewingArea

caVars == <<area, caLast, caSnapshot>>
vaVars == <<viewingArea, vaModel, vaLast>>
videoVars == <<player, videoLast>>
hooksVars == <<hooks, hooksLast>>
reVars == <<frames, received>>
vars == <<caVars, vaVars, videoVars, hooksVars, emission, reVars, view>>
\* what stays as it is while one component is exercised
notCA == <<vaVars, videoVars, hooksVars, emission, reVars, view>>
notVA == <<caVars, videoVars, hooksVars, emission, reVars, view>>
notVideo == <<caVars, vaVars, hooksVars, emission, reVars, view>>
notHooks == <<caLast, caSnapshot, vaVars, videoVars, emission, reVars, view>>
notEmission == <<caLast, caSnapshot, vaVars, videoVars, hooksVars, reVars, view>>
notView == <<caVars, videoVars, hooksVars, emission, reVars>>
notFrames == <<caLast, caSnapshot, vaVars, videoVars, hooksVars, emission, view>>

\* ------------------------------------------------------------ EventEmitter
\* variant: the registrations are called last registered first
EmitReversed(listeners, event, payload) ==
  [i \in 1..Len(listeners[event]) |->
     [listener |-> listeners[event][Len(listeners[event]) + 1 - i],
      event |-> event, payload |-> payload]]

\* emit(event, payload): every registration of the event, in registration
\* order, is called once with the payload
Emit(listeners, event, payload) ==
  [i \in 1..Len(listeners[event]) |->
     [listener |-> listeners[event][i], event |-> event, payload |-> payload]]

\* variant: removeListener is given a function that was never added
RemoveNothing(s, l) == s

\* removeListener drops the most recently added registration of l
RemoveLast(s, l) ==
  IF \E i \in 1..Len(s) : s[i] = l
  THEN LET k == CHOOSE i \in 1..Len(s) :
                  s[i] = l /\ \A j \in (i+1)..Len(s) : s[j] # l
       IN  SubSeq(s, 1, k - 1) \o SubSeq(s, k + 1, Len(s))
  ELSE s

\* --------------------------------------------- ConversationAreaController
\* constructor(id, topic): occupants start as a new empty array
NewController(id, topic) ==
  [id |-> id, topic |-> topic, occupants |-> Array(1, <<>>),
   listeners |-> [e \in CAEvents |-> <<>>]]

\* variant: the two arrays compared element by element, in order
IsSameOccupantsListInOrder(current, newOccupants) == current = newOccupants

\* variant: two players are the same when they carry the same id
IsSameOccupantsListById(current, newOccupants) ==
  IF Len(current) = Len(newOccupants)
  THEN \A i \in 1..Len(newOccupants) :
         PlayerId(newOccupants[i]) \in Range(IdsOf(current))
  ELSE FALSE

\* _isSameOccupantsList(newOccupants), on the items of the two arrays
IsSameOccupantsList(current, newOccupants) ==
  IF Len(current) = Len(newOccupants)
  THEN \A i \in 1..Len(newOccupants) : newOccupants[i] \in Range(current)
  ELSE FALSE

\* variant: the change of the occupants is announced as a topicChange
SetOccupantsEmitsTopicChange(c, newOccupants) ==
  IF ~IsSameOccupantsList(c.occupants.items, newOccupants.items)
  THEN [ctrl |-> [c EXCEPT !.occupants = newOccupants],
        calls |-> Emit(c.listeners, "topicChange", newOccupants)]
  ELSE [ctrl |-> c, calls |-> NoCalls]

\* variant: the new array is stored and announced without any comparison
SetOccupantsAlwaysStores(c, newOccupants) ==
  [ctrl |-> [c EXCEPT !.occupants = newOccupants],
   calls |-> Emit(c.listeners, "occupantsChange", newOccupants)]

\* set occupants(newOccupants)
SetOccupants(c, newOccupants) ==
  IF ~IsSameOccupantsList(c.occupants.items, newOccupants.items)
  THEN [ctrl |-> [c EXCEPT !.occupants = newOccupants],
        calls |-> Emit(c.listeners, "occupantsChange", newOccupants)]
  ELSE [ctrl |-> c, calls |-> NoCalls]

\* variant: the topic is stored and announced without any comparison
SetTopicAlwaysEmits(c, newTopic) ==
  [ctrl |-> [c EXCEPT !.topic = newTopic],
   calls |-> Emit(c.listeners, "topicChange", newTopic)]

\* variant: the event is emitted before the new topic is stored
SetTopicEmitsBeforeStore(c, newTopic) ==
  IF c.topic # newTopic
  THEN [ctrl |-> [c EXCEPT !.topic = newTopic],
        calls |-> Emit(c.listeners, "topicChange", c.topic)]
  ELSE [ctrl |-> c, calls |-> NoCalls]

\* set topic(newTopic)
SetTopic(c, newTopic) ==
  IF c.topic # newTopic
  THEN [ctrl |-> [c EXCEPT !.topic = newTopic],
        calls |-> Emit(c.listeners, "topicChange", newTopic)]
  ELSE [ctrl |-> c, calls |-> NoCalls]

\* variant: empty only when both the topic and the occupants are missing
IsEmptyBoth(c) == c.topic = Undefined /\ Len(c.occupants.items) = 0

\* isEmpty()
IsEmpty(c) == c.topic = Undefined \/ Len(c.occupants.items) = 0

\* variant: the occupant ids come out in reverse order
ToConversationAreaModelReversed(c) ==
  [id |-> c.id, topic |-> c.topic,
   occupantsByID |-> [i \in 1..Len(c.occupants.items) |->
      PlayerId(c.occupants.items[Len(c.occupants.items) + 1 - i])]]

\* toConversationAreaModel()
ToConversationAreaModel(c) ==
  [id |-> c.id, topic |-> c.topic,
   occupantsByID |-> [i \in 1..Len(c.occupants.items) |->
                        PlayerId(c.occupants.items[i])]]

\* variant: the controller is returned without its occupants being set
FromConversationAreaModelNoOccupants(convAreaModel, found) ==
  [ctrl |-> NewController(convAreaModel.id, convAreaModel.topic),
   calls |-> NoCalls, asked |-> <<convAreaModel.occupantsByID>>]

\* static fromConversationAreaModel(convAreaModel, playerFinder); found is
\* the array playerFinder returned for convAreaModel.occupantsByID and
\* asked the arguments playerFinder was called with, call by call
FromConversationAreaModel(convAreaModel, found) ==
  LET ret == NewController(convAreaModel.id, convAreaModel.topic)
      r == SetOccupants(ret, found)
  IN  [ctrl |-> r.ctrl, calls |-> r.calls,
       asked |-> <<convAreaModel.occupantsByID>>]

\* -------------------------------------------------- ViewingAreaController
\* what a call does: the controller after it, the listener calls it made,
\* the error it threw (NoError when it returned) and the value it returned
NoError == "<none>"
Unimplemented == "Unimplemented: Task 2 ViewingAreaController"
Return(c, calls, value) ==
  [ctrl |-> c, calls |-> calls, error |-> NoError, value |-> value]
Throw(c, error) ==
  [ctrl |-> c, calls |-> NoCalls, error |-> error, value |-> Undefined]

\* constructor(viewingAreaModel): super() and nothing else; the model is
\* not kept
NewViewingAreaController(viewingAreaModel) ==
  [listeners |-> [e \in VAEvents |-> <<>>]]

\* get id()
GetId(c) == Throw(c, Unimplemented)

\* get video()
GetVideo(c) == Throw(c, Unimplemented)

\* set video(video)
SetVideo(c, video) == Throw(c, Unimplemented)

\* get elapsedTimeSec()
GetElapsedTimeSec(c) == Throw(c, Unimplemented)

\* set elapsedTimeSec(elapsedTimeSec)
SetElapsedTimeSec(c, elapsedTimeSec) == Throw(c, Unimplemented)

\* get isPlaying()
GetIsPlaying(c) == Throw(c, Unimplemented)

\* set isPlaying(isPlaying)
SetIsPlaying(c, isPlaying) == Throw(c, Unimplemented)

\* viewingAreaModel()
ViewingAreaModel(c) == Throw(c, Unimplemented)

\* updateFrom(updatedModel): the three assignments in turn; an error thrown
\* by one of them ends the call
UpdateFrom(c, updatedModel) ==
  LET r1 == SetIsPlaying(c, updatedModel.isPlaying) IN
  IF r1.error # NoError THEN r1 ELSE
  LET r2 == SetElapsedTimeSec(r1.ctrl, updatedModel.elapsedTimeSec) IN
  IF r2.error # NoError THEN [r2 EXCEPT !.calls = r1.calls \o @] ELSE
  LET r3 == SetVideo(r2.ctrl, updatedModel.video) IN
  [r3 EXCEPT !.calls = r1.calls \o r2.calls \o @]

\* the record of an operation on the viewing area controller
VAOp(name, arg, pre, r) ==
  [op |-> name, arg |-> arg, pre |-> pre, calls |-> r.calls,
   error |-> r.error, value |-> r.value]

\* the record of an operation: op, its argument, the controller before it,
\* the listener calls it made and what it returned
Op(name, arg, pre, calls, result) ==
  [op |-> name, arg |-> arg, pre |-> pre, calls |-> calls, result |-> result]

\* playerFinder resolved every id, in order, to a player carrying that id
Faithful(ids, found) ==
  /\ Len(found.items) = Len(ids)
  /\ \A i \in 1..Len(ids) : PlayerId(found.items[i]) = ids[i]

\* an assigned list that has the length of the stored one and only players
\* that are already stored is kept out; any other list is stored
KeptOut(stored, assigned) ==
  Len(assigned) = Len(stored) /\ Range(assigned) \subseteq Range(stored)

\* model: the snapshot the area was made from, then overwritten field by
\* field with every value assigned; storedIds: the ids of the last list that
\* was not kept out; faithful: made by fromConversationAreaModel with a
\* playerFinder that resolved every id in order
Snapshot(model, storedIds, faithful) ==
  [model |-> model, storedIds |-> storedIds, faithful |-> faithful]

\* the viewing area controller while the conversation area is exercised,
\* and the conversation area controller while the viewing area is
IdleViewingAreaModel ==
  [id |-> "a1", isPlaying |-> FALSE, elapsedTimeSec |-> 0, video |-> Undefined]
IdleViewingAreaLast ==
  VAOp("new", IdleViewingAreaModel,
       NewViewingAreaController(IdleViewingAreaModel),
       Return(NewViewingAreaController(IdleViewingAreaModel), NoCalls,
              Undefined))
IdleAreaLast ==
  Op("new", <<"a1", Undefined>>, NewController("a1", Undefined), NoCalls,
     Undefined)
IdleAreaSnapshot ==
  Snapshot([id |-> "a1", topic |-> Undefined, occupantsByID |-> <<>>],
           <<>>, FALSE)

IdlePlayer == [ref |-> FALSE, currentTime |-> 0, playing |-> FALSE]
IdleVideoLast == [op |-> "new", arg |-> Undefined, pre |-> IdlePlayer,
                  seeks |-> <<>>]

\* no component has rendered yet
IdleHooks ==
  [i \in 1..NumComponents |->
     [phase |-> "unmounted", occupants |-> Array(1, <<>>),
      topic |-> NO_TOPIC_STRING]]
IdleHooksLast == [op |-> "new", arg |-> Undefined, calls |-> NoCalls]
\* the ViewingArea component before its first render
IdleView ==
  [phase |-> "unmounted", selectIsOpen |-> FALSE, url |-> Undefined,
   shows |-> "nothing", error |-> NoError]
\* no listener has been called yet
NothingReceived == "<nothing received>"
IdleReceived ==
  [last |-> [l \in ListenerIds |-> NothingReceived],
   call |-> [op |-> "none", listener |-> "f", payload |-> Undefined,
             topic |-> Undefined, stale |-> FALSE],
   reentered |-> FALSE]
\* no emission has started yet
IdleEmission ==
  [active |-> FALSE, atStart |-> <<>>, queue |-> NoCalls, called |-> NoCalls,
   registered |-> [l \in ListenerIds |-> 0],
   registeredAtStart |-> [l \in ListenerIds |-> 0]]

CAInit ==
  \E id \in AreaIds, topic \in TopicValues :
    /\ area = NewController(id, topic)
    /\ caLast = Op("new", <<id, topic>>, NewController(id, topic),
                   NoCalls, Undefined)
    /\ caSnapshot = Snapshot([id |-> id, topic |-> topic,
                              occupantsByID |-> <<>>], <<>>, FALSE)
    /\ vaModel = IdleViewingAreaModel
    /\ viewingArea = NewViewingAreaController(IdleViewingAreaModel)
    /\ vaLast = IdleViewingAreaLast
    /\ player = IdlePlayer
    /\ videoLast = IdleVideoLast
    /\ hooks = IdleHooks
    /\ hooksLast = IdleHooksLast
    /\ emission = IdleEmission
    /\ frames = <<>>
    /\ received = IdleReceived
    /\ view = IdleView

\* construction by fromConversationAreaModel: playerFinder returns an array
\* of its own, never the one the constructor has just created
CAModelInit ==
  \E convAreaModel \in ConversationAreaModels, found \in Arrays :
    LET r == FromConversationAreaModel(convAreaModel, found) IN
    /\ found.ref # 1
    /\ area = r.ctrl
    /\ caLast = Op("fromConversationAreaModel",
                   [model |-> convAreaModel, found |-> found],
                   NewController(convAreaModel.id, convAreaModel.topic),
                   r.calls, r.asked)
    /\ caSnapshot = Snapshot(convAreaModel,
                             IF KeptOut(<<>>, found.items)
                             THEN <<>> ELSE IdsOf(found.items),
                             Faithful(convAreaModel.occupantsByID, found))
    /\ vaModel = IdleViewingAreaModel
    /\ viewingArea = NewViewingAreaController(IdleViewingAreaModel)
    /\ vaLast = IdleViewingAreaLast
    /\ player = IdlePlayer
    /\ videoLast = IdleVideoLast
    /\ hooks = IdleHooks
    /\ hooksLast = IdleHooksLast
    /\ emission = IdleEmission
    /\ frames = <<>>
    /\ received = IdleReceived
    /\ view = IdleView

CASetTopic(newTopic) ==
  LET r == SetTopic(area, newTopic) IN
  /\ area' = r.ctrl
  /\ caLast' = Op("setTopic", newTopic, area, r.calls, Undefined)
  /\ caSnapshot' = [caSnapshot EXCEPT !.model.topic = newTopic]

\* occupants := newOccupants; an array with the identity of the stored
\* array is the stored array
CASetOccupants(newOccupants) ==
  LET r == SetOccupants(area, newOccupants) IN
  /\ newOccupants.ref = area.occupants.ref => newOccupants = area.occupants
  /\ area' = r.ctrl
  /\ caLast' = Op("setOccupants", newOccupants, area, r.calls, Undefined)
  /\ caSnapshot' = [caSnapshot EXCEPT
       !.model.occupantsByID = IdsOf(newOccupants.items),
       !.storedIds = IF KeptOut(area.occupants.items, newOccupants.items)
                     THEN @ ELSE IdsOf(newOccupants.items)]

CAIsEmpty ==
  /\ caLast' = Op("isEmpty", Undefined, area, NoCalls, IsEmpty(area))
  /\ UNCHANGED <<area, caSnapshot>>

CAToConversationAreaModel ==
  /\ caLast' = Op("toConversationAreaModel", Undefined, area, NoCalls,
                  ToConversationAreaModel(area))
  /\ UNCHANGED <<area, caSnapshot>>

CAAddListener(event, l) ==
  /\ Len(area.listeners["topicChange"])
       + Len(area.listeners["occupantsChange"]) < MaxListeners
  /\ area' = [area EXCEPT !.listeners[event] = Append(@, l)]
  /\ caLast' = Op("addListener", <<event, l>>, area, NoCalls, Undefined)
  /\ UNCHANGED caSnapshot

CARemoveListener(event, l) ==
  /\ l \in Range(area.listeners[event])
  /\ area' = [area EXCEPT !.listeners[event] = RemoveLast(@, l)]
  /\ caLast' = Op("removeListener", <<event, l>>, area, NoCalls, Undefined)
  /\ UNCHANGED caSnapshot

CANext ==
  \/ \E t \in TopicValues : CASetTopic(t) /\ UNCHANGED notCA
  \/ \E a \in Arrays : CASetOccupants(a) /\ UNCHANGED notCA
  \/ CAIsEmpty /\ UNCHANGED notCA
  \/ CAToConversationAreaModel /\ UNCHANGED notCA
  \/ \E e \in CAEvents, l \in ListenerIds :
       CAAddListener(e, l) /\ UNCHANGED notCA
  \/ \E e \in CAEvents, l \in ListenerIds :
       CARemoveListener(e, l) /\ UNCHANGED notCA

SpecCA == CAInit /\ [][CANext]_vars

\* a controller made by fromConversationAreaModel, then assigned to and
\* projected, with no listener registered
CAModelNext ==
  \/ \E t \in TopicValues : CASetTopic(t) /\ UNCHANGED notCA
  \/ \E a \in Arrays : CASetOccupants(a) /\ UNCHANGED notCA
  \/ CAIsEmpty /\ UNCHANGED notCA
  \/ CAToConversationAreaModel /\ UNCHANGED notCA

SpecCAModel == CAModelInit /\ [][CAModelNext]_vars

\* ------------------------------------------ viewing area controller steps
VAInit ==
  \E m \in ViewingAreaModels :
    /\ vaModel = m
    /\ viewingArea = NewViewingAreaController(m)
    /\ vaLast = VAOp("new", m, NewViewingAreaController(m),
                     Return(NewViewingAreaController(m), NoCalls, Undefined))
    /\ area = NewController("a1", Undefined)
    /\ caLast = IdleAreaLast
    /\ caSnapshot = IdleAreaSnapshot
    /\ player = IdlePlayer
    /\ videoLast = IdleVideoLast
    /\ hooks = IdleHooks
    /\ hooksLast = IdleHooksLast
    /\ emission = IdleEmission
    /\ frames = <<>>
    /\ received = IdleReceived
    /\ view = IdleView

VACall(name, arg, r) ==
  /\ viewingArea' = r.ctrl
  /\ vaLast' = VAOp(name, arg, viewingArea, r)
  /\ UNCHANGED vaModel

VASetVideo(video) == VACall("setVideo", video, SetVideo(viewingArea, video))

VASetElapsedTimeSec(elapsedTimeSec) ==
  VACall("setElapsedTimeSec", elapsedTimeSec,
         SetElapsedTimeSec(viewingArea, elapsedTimeSec))

VASetIsPlaying(isPlaying) ==
  VACall("setIsPlaying", isPlaying, SetIsPlaying(viewingArea, isPlaying))

VAUpdateFrom(updatedModel) ==
  VACall("updateFrom", updatedModel, UpdateFrom(viewingArea, updatedModel))

VAViewingAreaModel ==
  VACall("viewingAreaModel", Undefined, ViewingAreaModel(viewingArea))

VAGetId == VACall("getId", Undefined, GetId(viewingArea))

VAAddListener(event, l) ==
  LET n == Len(viewingArea.listeners["playbackChange"])
             + Len(viewingArea.listeners["progressChange"])
             + Len(viewingArea.listeners["videoChange"]) IN
  /\ n < MaxListeners
  /\ VACall("addListener", <<event, l>>,
            Return([viewingArea EXCEPT !.listeners[event] = Append(@, l)],
                   NoCalls, Undefined))

VARemoveListener(event, l) ==
  /\ l \in Range(viewingArea.listeners[event])
  /\ VACall("removeListener", <<event, l>>,
            Return([viewingArea EXCEPT
                      !.listeners[event] = RemoveLast(@, l)],
                   NoCalls, Undefined))

VANext ==
  \/ \E v \in VideoValues : VASetVideo(v) /\ UNCHANGED notVA
  \/ \E t \in Times : VASetElapsedTimeSec(t) /\ UNCHANGED notVA
  \/ \E b \in BOOLEAN : VASetIsPlaying(b) /\ UNCHANGED notVA
  \/ \E m \in ViewingAreaModels : VAUpdateFrom(m) /\ UNCHANGED notVA
  \/ VAViewingAreaModel /\ UNCHANGED notVA
  \/ VAGetId /\ UNCHANGED notVA
  \/ \E e \in VAEvents, l \in ListenerIds :
       VAAddListener(e, l) /\ UNCHANGED notVA
  \/ \E e \in VAEvents, l \in ListenerIds :
       VARemoveListener(e, l) /\ UNCHANGED notVA

SpecVA == VAInit /\ [][VANext]_vars

\* ------------------------------------------------------ ViewingAreaVideo
\* the drift allowed, in time units
AllowedDrift == ALLOWED_DRIFT * TimeScale
\* playback positions, in time units: far enough to drift past the limit
VideoTimes == 0..(AllowedDrift + TimeScale)

\* variant: a drift of exactly the allowed amount already seeks
UpdateTimecodeInclusive(p, newTime) ==
  IF p.ref
  THEN IF newTime >= p.currentTime + AllowedDrift
       THEN [player |-> [p EXCEPT !.currentTime = newTime],
             seeks |-> <<newTime>>]
       ELSE IF newTime <= p.currentTime - AllowedDrift
            THEN [player |-> [p EXCEPT !.currentTime = newTime],
                  seeks |-> <<newTime>>]
            ELSE [player |-> p, seeks |-> <<>>]
  ELSE [player |-> p, seeks |-> <<>>]

\* updateTimecode(newTime), the progressChange listener: seekTo(newTime,
\* 'seconds') moves the player to newTime
UpdateTimecode(p, newTime) ==
  IF p.ref
  THEN IF newTime > p.currentTime + AllowedDrift
       THEN [player |-> [p EXCEPT !.currentTime = newTime],
             seeks |-> <<newTime>>]
       ELSE IF newTime < p.currentTime - AllowedDrift
            THEN [player |-> [p EXCEPT !.currentTime = newTime],
                  seeks |-> <<newTime>>]
            ELSE [player |-> p, seeks |-> <<>>]
  ELSE [player |-> p, seeks |-> <<>>]

\* updateIsPlaying(newIsPlaying), the playbackChange listener: the playing
\* prop of the player follows the component's isPlaying state
UpdateIsPlaying(p, newIsPlaying) == [p EXCEPT !.playing = newIsPlaying]

VideoOp(name, arg, pre, seeks) ==
  [op |-> name, arg |-> arg, pre |-> pre, seeks |-> seeks]

\* the component is rendered with its player; the ref is set when the
\* player mounts
VideoInit ==
  \E playing \in BOOLEAN :
    /\ player = [ref |-> FALSE, currentTime |-> 0, playing |-> playing]
    /\ videoLast = VideoOp("new", Undefined,
                           [ref |-> FALSE, currentTime |-> 0,
                            playing |-> playing], <<>>)
    /\ area = NewController("a1", Undefined)
    /\ caLast = IdleAreaLast
    /\ caSnapshot = IdleAreaSnapshot
    /\ vaModel = IdleViewingAreaModel
    /\ viewingArea = NewViewingAreaController(IdleViewingAreaModel)
    /\ vaLast = IdleViewingAreaLast
    /\ hooks = IdleHooks
    /\ hooksLast = IdleHooksLast
    /\ emission = IdleEmission
    /\ frames = <<>>
    /\ received = IdleReceived
    /\ view = IdleView

\* the ReactPlayer mounts (ref.current is set) or unmounts (it is null)
VideoRefChange(attached) ==
  /\ player.ref # attached
  /\ player' = [player EXCEPT !.ref = attached]
  /\ videoLast' = VideoOp("ref", attached, player, <<>>)

\* a progressChange event arrives with newTime
VideoProgressChange(newTime) ==
  LET r == UpdateTimecode(player, newTime) IN
  /\ player' = r.player
  /\ videoLast' = VideoOp("progressChange", newTime, player, r.seeks)

\* a playbackChange event arrives
VideoPlaybackChange(newIsPlaying) ==
  /\ player' = UpdateIsPlaying(player, newIsPlaying)
  /\ videoLast' = VideoOp("playbackChange", newIsPlaying, player, <<>>)

\* the mounted player plays on by one time unit
VideoPlays ==
  /\ player.ref /\ player.playing
  /\ player.currentTime + 1 \in VideoTimes
  /\ player' = [player EXCEPT !.currentTime = @ + 1]
  /\ videoLast' = VideoOp("plays", Undefined, player, <<>>)

VideoNext ==
  \/ \E b \in BOOLEAN : VideoRefChange(b) /\ UNCHANGED notVideo
  \/ \E t \in VideoTimes : VideoProgressChange(t) /\ UNCHANGED notVideo
  \/ \E b \in BOOLEAN : VideoPlaybackChange(b) /\ UNCHANGED notVideo
  \/ VideoPlays /\ UNCHANGED notVideo

SpecVideo == VideoInit /\ [][VideoNext]_vars

\* ------------------------------------------------------ the two React hooks
\* a JavaScript condition on a string or undefined: undefined and the empty
\* string are false
Truthy(v) == v # Undefined /\ v # ""

\* the initial state of useConversationAreaOccupants(c)
InitialOccupants(c) == c.occupants
\* the initial state of useConversationAreaTopic(c)
InitialTopic(c) == IF Truthy(c.topic) THEN c.topic ELSE NO_TOPIC_STRING
\* updateOccupants(newOccupants): the state it sets
UpdateOccupants(newOccupants) == newOccupants
\* updateTopic(newTopic): the state it sets
UpdateTopic(newTopic) == IF Truthy(newTopic) THEN newTopic ELSE NO_TOPIC_STRING

\* the components whose listener the calls name
Notified(calls) == {calls[k].listener : k \in 1..Len(calls)}

\* the arrays assigned to the occupants while components are watching
HookArrays == {a \in Arrays : Len(a.items) <= 1}

HooksOp(name, arg, calls) == [op |-> name, arg |-> arg, calls |-> calls]

HooksInit ==
  \E topic \in TopicValues :
    /\ area = NewController("a1", topic)
    /\ hooks = IdleHooks
    /\ hooksLast = HooksOp("new", topic, NoCalls)
    /\ caLast = IdleAreaLast
    /\ caSnapshot = IdleAreaSnapshot
    /\ vaModel = IdleViewingAreaModel
    /\ viewingArea = NewViewingAreaController(IdleViewingAreaModel)
    /\ vaLast = IdleViewingAreaLast
    /\ player = IdlePlayer
    /\ videoLast = IdleVideoLast
    /\ emission = IdleEmission
    /\ frames = <<>>
    /\ received = IdleReceived
    /\ view = IdleView

\* the first render of component i: both useState calls take their initial
\* value, the effects are yet to run
HookRender(i) ==
  /\ hooks[i].phase = "unmounted"
  /\ hooks' = [hooks EXCEPT ![i] = [phase |-> "rendered",
                                    occupants |-> InitialOccupants(area),
                                    topic |-> InitialTopic(area)]]
  /\ hooksLast' = HooksOp("render", i, NoCalls)
  /\ UNCHANGED area

\* the effects of component i run: each hook adds its listener
HookEffects(i) ==
  /\ hooks[i].phase = "rendered"
  /\ hooks' = [hooks EXCEPT ![i].phase = "subscribed"]
  /\ area' = [area EXCEPT !.listeners["occupantsChange"] = Append(@, i),
                          !.listeners["topicChange"] = Append(@, i)]
  /\ hooksLast' = HooksOp("effects", i, NoCalls)

\* component i unmounts: the cleanup of each effect removes its listener
HookUnmount(i) ==
  /\ hooks[i].phase = "subscribed"
  /\ hooks' = [hooks EXCEPT ![i].phase = "unmounted"]
  /\ area' = [area EXCEPT !.listeners["occupantsChange"] = RemoveLast(@, i),
                          !.listeners["topicChange"] = RemoveLast(@, i)]
  /\ hooksLast' = HooksOp("unmount", i, NoCalls)

\* area.occupants = newOccupants while components watch: every listener
\* called sets its component's state
HookSetOccupants(newOccupants) ==
  LET r == SetOccupants(area, newOccupants) IN
  /\ newOccupants.ref = area.occupants.ref => newOccupants = area.occupants
  /\ area' = r.ctrl
  /\ hooks' = [i \in 1..NumComponents |->
                 IF i \in Notified(r.calls)
                 THEN [hooks[i] EXCEPT
                         !.occupants = UpdateOccupants(newOccupants)]
                 ELSE hooks[i]]
  /\ hooksLast' = HooksOp("setOccupants", newOccupants, r.calls)

\* area.topic = newTopic while components watch
HookSetTopic(newTopic) ==
  LET r == SetTopic(area, newTopic) IN
  /\ area' = r.ctrl
  /\ hooks' = [i \in 1..NumComponents |->
                 IF i \in Notified(r.calls)
                 THEN [hooks[i] EXCEPT !.topic = UpdateTopic(newTopic)]
                 ELSE hooks[i]]
  /\ hooksLast' = HooksOp("setTopic", newTopic, r.calls)

HooksNext ==
  \/ \E i \in 1..NumComponents : HookRender(i) /\ UNCHANGED notHooks
  \/ \E i \in 1..NumComponents : HookEffects(i) /\ UNCHANGED notHooks
  \/ \E i \in 1..NumComponents : HookUnmount(i) /\ UNCHANGED notHooks
  \/ \E a \in HookArrays : HookSetOccupants(a) /\ UNCHANGED notHooks
  \/ \E t \in TopicValues : HookSetTopic(t) /\ UNCHANGED notHooks

SpecHooks == HooksInit /\ [][HooksNext]_vars

\* --------------------------------------------- an emission, call by call
\* variant: the calls still to make follow the listeners as they are now
PendingLive(queue, listeners) ==
  LET StillThere(call) == call.listener \in Range(listeners)
  IN  SelectSeq(queue, StillThere)

\* the calls an emission in progress has still to make: emit goes through
\* the listeners it found when it started, whatever is removed meanwhile
Pending(queue, listeners) == queue

\* removeListener on a count of registrations
OneLess(n) == IF n > 0 THEN n - 1 ELSE 0

EmitInit ==
  \E topic \in TopicValues :
    /\ area = NewController("a1", topic)
    /\ emission = IdleEmission
    /\ frames = <<>>
    /\ received = IdleReceived
    /\ view = IdleView
    /\ caLast = IdleAreaLast
    /\ caSnapshot = IdleAreaSnapshot
    /\ vaModel = IdleViewingAreaModel
    /\ viewingArea = NewViewingAreaController(IdleViewingAreaModel)
    /\ vaLast = IdleViewingAreaLast
    /\ player = IdlePlayer
    /\ videoLast = IdleVideoLast
    /\ hooks = IdleHooks
    /\ hooksLast = IdleHooksLast

\* area.addListener('topicChange', l) between two emissions
EmitAddListener(l) ==
  /\ ~emission.active
  /\ Len(area.listeners["topicChange"]) < MaxListeners
  /\ area' = [area EXCEPT !.listeners["topicChange"] = Append(@, l)]
  /\ emission' = [emission EXCEPT !.registered[l] = @ + 1]

\* area.removeListener('topicChange', l) between two emissions
EmitRemoveListener(l) ==
  /\ ~emission.active
  /\ area' = [area EXCEPT !.listeners["topicChange"] = RemoveLast(@, l)]
  /\ emission' = [emission EXCEPT !.registered[l] = OneLess(@)]

\* area.topic = newTopic: a new value is stored and the emission starts
EmitSetTopic(newTopic) ==
  LET r == SetTopic(area, newTopic) IN
  /\ ~emission.active
  /\ area' = r.ctrl
  /\ emission' = IF area.topic # newTopic
                 THEN [emission EXCEPT
                         !.active = TRUE,
                         !.atStart = area.listeners["topicChange"],
                         !.queue = r.calls,
                         !.called = NoCalls,
                         !.registeredAtStart = emission.registered]
                 ELSE emission

\* the emission calls its next listener, which leaves the listeners alone
EmitCallListener ==
  LET pending == Pending(emission.queue, area.listeners["topicChange"]) IN
  /\ emission.active
  /\ pending # NoCalls
  /\ emission' = [emission EXCEPT !.called = Append(@, Head(pending)),
                                  !.queue = Tail(pending)]
  /\ UNCHANGED area

\* the emission calls its next listener, which removes listener l
EmitCallListenerRemoving(l) ==
  LET pending == Pending(emission.queue, area.listeners["topicChange"]) IN
  /\ emission.active
  /\ pending # NoCalls
  /\ area' = [area EXCEPT !.listeners["topicChange"] = RemoveLast(@, l)]
  /\ emission' = [emission EXCEPT !.called = Append(@, Head(pending)),
                                  !.queue = Tail(pending),
                                  !.registered[l] = OneLess(@)]

\* no call is left to make: emit, and with it the setter, returns
EmitReturn ==
  /\ emission.active
  /\ Pending(emission.queue, area.listeners["topicChange"]) = NoCalls
  /\ emission' = [emission EXCEPT !.active = FALSE, !.queue = NoCalls]
  /\ UNCHANGED area

EmitNext ==
  \/ \E l \in ListenerIds : EmitAddListener(l) /\ UNCHANGED notEmission
  \/ \E l \in ListenerIds : EmitRemoveListener(l) /\ UNCHANGED notEmission
  \/ \E t \in TopicValues : EmitSetTopic(t) /\ UNCHANGED notEmission
  \/ EmitCallListener /\ UNCHANGED notEmission
  \/ \E l \in ListenerIds :
       EmitCallListenerRemoving(l) /\ UNCHANGED notEmission
  \/ EmitReturn /\ UNCHANGED notEmission

SpecEmit == EmitInit /\ [][EmitNext]_vars

\* ------------------------------------- the stored array in a caller's hands
\* variant: the getter hands out a copy of the stored array
GetOccupantsCopy(c) == Array(0, c.occupants.items)

\* get occupants(): the stored array itself
GetOccupants(c) == c.occupants

\* a caller takes area.occupants and adds or removes players in place,
\* leaving items in the array it was given
CAMutateOccupantsInPlace(items) ==
  LET got == GetOccupants(area) IN
  /\ items # area.occupants.items
  /\ area' = IF got.ref = area.occupants.ref
             THEN [area EXCEPT !.occupants.items = items]
             ELSE area
  /\ caLast' = Op("mutateInPlace", items, area, NoCalls, Undefined)
  /\ UNCHANGED caSnapshot

\* one area, with or without a topic
CAAliasInit ==
  \E topic \in TopicValues :
    /\ area = NewController("a1", topic)
    /\ caLast = Op("new", <<"a1", topic>>, NewController("a1", topic),
                   NoCalls, Undefined)
    /\ caSnapshot = Snapshot([id |-> "a1", topic |-> topic,
                              occupantsByID |-> <<>>], <<>>, FALSE)
    /\ vaModel = IdleViewingAreaModel
    /\ viewingArea = NewViewingAreaController(IdleViewingAreaModel)
    /\ vaLast = IdleViewingAreaLast
    /\ player = IdlePlayer
    /\ videoLast = IdleVideoLast
    /\ hooks = IdleHooks
    /\ hooksLast = IdleHooksLast
    /\ emission = IdleEmission
    /\ frames = <<>>
    /\ received = IdleReceived
    /\ view = IdleView

CAAliasNext ==
  \/ \E a \in Arrays : CASetOccupants(a) /\ UNCHANGED notCA
  \/ \E items \in BoundedSeqs(Players, MaxLen) :
       CAMutateOccupantsInPlace(items) /\ UNCHANGED notCA
  \/ CAIsEmpty /\ UNCHANGED notCA
  \/ CAToConversationAreaModel /\ UNCHANGED notCA
  \/ CAAddListener("occupantsChange", "f") /\ UNCHANGED notCA

SpecCAAlias == CAAliasInit /\ [][CAAliasNext]_vars

\* ------------------------------- assignments from inside a listener's call
Top(s) == s[Len(s)]
Below(s) == SubSeq(s, 1, Len(s) - 1)
\* an emission that has started: the calls it has still to make
Frame(calls) == [queue |-> calls, reassigned |-> FALSE]

\* the record of a listener being called: what it is called with, what
\* area.topic reads at that moment, and whether a listener called earlier by
\* the same emission has assigned the topic
Call(call, topic, stale) ==
  [op |-> "call", listener |-> call.listener, payload |-> call.payload,
   topic |-> topic, stale |-> stale]

ReInit ==
  \E topic \in TopicValues :
    /\ area = NewController("a1", topic)
    /\ frames = <<>>
    /\ received = IdleReceived
    /\ view = IdleView
    /\ caLast = IdleAreaLast
    /\ caSnapshot = IdleAreaSnapshot
    /\ vaModel = IdleViewingAreaModel
    /\ viewingArea = NewViewingAreaController(IdleViewingAreaModel)
    /\ vaLast = IdleViewingAreaLast
    /\ player = IdlePlayer
    /\ videoLast = IdleVideoLast
    /\ hooks = IdleHooks
    /\ hooksLast = IdleHooksLast
    /\ emission = IdleEmission

\* area.addListener('topicChange', l) while no emission is in progress
ReAddListener(l) ==
  /\ frames = <<>>
  /\ Len(area.listeners["topicChange"]) < MaxListeners
  /\ area' = [area EXCEPT !.listeners["topicChange"] = Append(@, l)]
  /\ UNCHANGED <<frames, received>>

\* area.topic = newTopic from outside any listener
ReSetTopic(newTopic) ==
  LET r == SetTopic(area, newTopic) IN
  /\ frames = <<>>
  /\ area' = r.ctrl
  /\ frames' = IF area.topic # newTopic THEN <<Frame(r.calls)>> ELSE frames
  /\ received' = IF area.topic # newTopic
                 THEN [received EXCEPT !.reentered = FALSE]
                 ELSE received

\* the innermost emission calls its next listener, which only reads
ReCallListener ==
  /\ frames # <<>>
  /\ Top(frames).queue # NoCalls
  /\ LET call == Head(Top(frames).queue) IN
       received' = [received EXCEPT
         !.last[call.listener] = call.payload,
         !.call = Call(call, area.topic, Top(frames).reassigned)]
  /\ frames' = Append(Below(frames),
                      [Top(frames) EXCEPT !.queue = Tail(@)])
  /\ UNCHANGED area

\* the innermost emission calls its next listener, which assigns
\* area.topic = newTopic, another value, before it returns
ReCallListenerAssigning(newTopic) ==
  LET r == SetTopic(area, newTopic) IN
  /\ frames # <<>>
  /\ Len(frames) < MaxDepth
  /\ Top(frames).queue # NoCalls
  /\ newTopic # area.topic
  /\ LET call == Head(Top(frames).queue) IN
       received' = [received EXCEPT
         !.last[call.listener] = call.payload,
         !.call = Call(call, area.topic, Top(frames).reassigned),
         !.reentered = TRUE]
  /\ area' = r.ctrl
  /\ frames' = Append(Append(Below(frames),
                             [Top(frames) EXCEPT !.queue = Tail(@),
                                                 !.reassigned = TRUE]),
                      Frame(r.calls))

\* the innermost emission has no call left: emit and its setter return
ReReturn ==
  /\ frames # <<>>
  /\ Top(frames).queue = NoCalls
  /\ frames' = Below(frames)
  /\ UNCHANGED <<area, received>>

ReNext ==
  \/ \E l \in ListenerIds : ReAddListener(l) /\ UNCHANGED notFrames
  \/ \E t \in TopicValues : ReSetTopic(t) /\ UNCHANGED notFrames
  \/ ReCallListener /\ UNCHANGED notFrames
  \/ \E t \in TopicValues : ReCallListenerAssigning(t) /\ UNCHANGED notFrames
  \/ ReReturn /\ UNCHANGED notFrames

SpecReentrant == ReInit /\ [][ReNext]_vars

\* ------------------------------------------------ the ViewingArea component
\* the first render of ViewingArea: both useState calls read
\* controller.video; an error thrown by the getter ends the render, and
\* nothing is shown
ViewingAreaRender(c) ==
  LET r == GetVideo(c) IN
  IF r.error # NoError
  THEN [phase |-> "failed", selectIsOpen |-> FALSE, url |-> Undefined,
        shows |-> "nothing", error |-> r.error]
  ELSE [phase |-> "rendered", selectIsOpen |-> r.value = Undefined,
        url |-> r.value,
        shows |-> IF Truthy(r.value) THEN "player" ELSE "modal",
        error |-> NoError]

\* setURL(url), the videoChange listener, on the component's state: without
\* a url the interaction is ended and the state stays, else the url is kept
SetURL(v, url) ==
  IF ~Truthy(url)
  THEN [v EXCEPT !.phase = "ended"]
  ELSE [v EXCEPT !.url = url, !.shows = "player"]

\* the listener calls of an operation on the controller, applied in turn
RECURSIVE Deliver(_, _)
Deliver(v, calls) ==
  IF calls = NoCalls THEN v
  ELSE Deliver(IF Head(calls).event = "videoChange" /\ v.phase = "rendered"
               THEN SetURL(v, Head(calls).payload) ELSE v,
               Tail(calls))

ViewInit ==
  \E m \in ViewingAreaModels :
    /\ vaModel = m
    /\ viewingArea = NewViewingAreaController(m)
    /\ vaLast = VAOp("new", m, NewViewingAreaController(m),
                     Return(NewViewingAreaController(m), NoCalls, Undefined))
    /\ view = IdleView
    /\ area = NewController("a1", Undefined)
    /\ caLast = IdleAreaLast
    /\ caSnapshot = IdleAreaSnapshot
    /\ player = IdlePlayer
    /\ videoLast = IdleVideoLast
    /\ hooks = IdleHooks
    /\ hooksLast = IdleHooksLast
    /\ emission = IdleEmission
    /\ frames = <<>>
    /\ received = IdleReceived

\* the player starts interacting with the viewing area: ViewingArea renders
ViewRender ==
  /\ view.phase \in {"unmounted", "failed"}
  /\ view' = ViewingAreaRender(viewingArea)
  /\ UNCHANGED vaVars

\* viewingArea.video = video while the component is there
ViewSetVideo(video) ==
  LET r == SetVideo(viewingArea, video) IN
  /\ VACall("setVideo", video, r)
  /\ view' = Deliver(view, r.calls)

\* viewingArea.updateFrom(updatedModel) while the component is there
ViewUpdateFrom(updatedModel) ==
  LET r == UpdateFrom(viewingArea, updatedModel) IN
  /\ VACall("updateFrom", updatedModel, r)
  /\ view' = Deliver(view, r.calls)

ViewNext ==
  \/ ViewRender /\ UNCHANGED notView
  \/ \E v \in VideoValues : ViewSetVideo(v) /\ UNCHANGED notView
  \/ \E m \in ViewingAreaModels : ViewUpdateFrom(m) /\ UNCHANGED notView

SpecView == ViewInit /\ [][ViewNext]_vars

CATypeOK ==
  /\ area.id \in AreaIds
  /\ area.topic \in TopicValues
  /\ area.occupants \in Arrays
\* ------------------------------------------------------------------ claims
\* the calls of a change: every registration of the event, and nothing
\* else, was called once, each time with the payload
CalledOnceEach(calls, registered, event, payload) ==
  /\ Len(calls) = Len(registered)
  /\ \A i \in 1..Len(calls) :
       calls[i].event = event /\ calls[i].payload = payload
  /\ \A l \in ListenerIds :
       Count([i \in 1..Len(calls) |-> calls[i].listener], l)
         = Count(registered, l)

IsPermutation(a, b) == \A p \in Players : Count(a, p) = Count(b, p)

\* C1: assigning topic its current value (a string, or absent to absent)
\* leaves the stored topic as it was and calls no topicChange listener.
C1_TopicCurrentValueIsNoOp ==
  (caLast.op = "setTopic" /\ caLast.arg = caLast.pre.topic)
    => /\ area.topic = caLast.pre.topic
       /\ \A i \in 1..Len(caLast.calls) : caLast.calls[i].event # "topicChange"

\* absent assigned to an absent topic while a topicChange listener listens
C1_Witness ==
  /\ caLast.op = "setTopic"
  /\ caLast.arg = Undefined
  /\ caLast.pre.topic = Undefined
  /\ Len(area.listeners["topicChange"]) > 0

\* C2: assigning topic v2 while the topic is v1 # v2 calls every registered
\* topicChange listener exactly once with v2, and topic then reads v2.
C2_TopicChangeNotifiesOnce ==
  (caLast.op = "setTopic" /\ caLast.arg # caLast.pre.topic)
    => /\ CalledOnceEach(caLast.calls, caLast.pre.listeners["topicChange"],
                         "topicChange", caLast.arg)
       /\ area.topic = caLast.arg

\* a defined topic replaced by another value with two listeners registered
C2_Witness ==
  /\ caLast.op = "setTopic"
  /\ caLast.pre.topic \in TopicStrings
  /\ caLast.arg # caLast.pre.topic
  /\ Len(caLast.pre.listeners["topicChange"]) = 2
  /\ Len(caLast.calls) = 2

\* C3: assigning occupants a permutation of the stored list (or the stored
\* array itself) calls no listener and leaves the stored array, its identity
\* and its order, as it was.
C3_PermutationIsNoOp ==
  (caLast.op = "setOccupants"
     /\ IsPermutation(caLast.arg.items, caLast.pre.occupants.items))
    => /\ caLast.calls = NoCalls
       /\ area.occupants = caLast.pre.occupants

\* another array holding the two stored players in the other order is
\* assigned while an occupantsChange listener listens
C3_Witness ==
  /\ caLast.op = "setOccupants"
  /\ Len(caLast.arg.items) = 2
  /\ caLast.arg.items # caLast.pre.occupants.items
  /\ caLast.arg.ref # caLast.pre.occupants.ref
  /\ IsPermutation(caLast.arg.items, caLast.pre.occupants.items)
  /\ Len(area.listeners["occupantsChange"]) > 0

\* C4: assigning occupants a list that differs from the stored one in
\* membership or in cardinality calls every registered occupantsChange
\* listener exactly once with the new list, which is then the stored array.
C4_ChangedOccupantsNotifyOnce ==
  (caLast.op = "setOccupants"
     /\ \/ Range(caLast.arg.items) # Range(caLast.pre.occupants.items)
        \/ Len(caLast.arg.items) # Len(caLast.pre.occupants.items))
    => /\ CalledOnceEach(caLast.calls,
                         caLast.pre.listeners["occupantsChange"],
                         "occupantsChange", caLast.arg)
       /\ area.occupants = caLast.arg

\* C5: isEmpty() is true exactly when the topic is absent or there is no
\* occupant.
C5_IsEmptyIffNoTopicOrNoOccupants ==
  caLast.op = "isEmpty"
    => (caLast.result <=>
          (area.topic = Undefined \/ area.occupants.items = <<>>))

\* isEmpty() answered false: a topic is set and somebody is in the area
C5_Witness ==
  /\ caLast.op = "isEmpty"
  /\ caLast.result = FALSE
  /\ area.topic \in TopicStrings
  /\ area.occupants.items # <<>>

\* C6: toConversationAreaModel() returns the id, the topic and the ids of
\* the stored occupants in stored order, changes nothing and calls nobody.
C6_ToModelProjectsState ==
  caLast.op = "toConversationAreaModel"
    => /\ caLast.result.id = area.id
       /\ caLast.result.topic = area.topic
       /\ Len(caLast.result.occupantsByID) = Len(area.occupants.items)
       /\ \A i \in 1..Len(area.occupants.items) :
            caLast.result.occupantsByID[i] = PlayerId(area.occupants.items[i])
       /\ area = caLast.pre
       /\ caLast.calls = NoCalls

\* the model of an area with a topic and two occupants of different ids
C6_Witness ==
  /\ caLast.op = "toConversationAreaModel"
  /\ area.topic \in TopicStrings
  /\ Len(area.occupants.items) = 2
  /\ PlayerId(area.occupants.items[1]) # PlayerId(area.occupants.items[2])
  /\ Len(area.listeners["topicChange"]) > 0

\* C7 as stated: a controller made by fromConversationAreaModel with a
\* resolving playerFinder projects to the snapshot it was made from or last
\* updated with: the ids of the last list assigned, in that list's order.
C7_RoundTripLastAssigned ==
  caSnapshot.faithful => ToConversationAreaModel(area) = caSnapshot.model

\* C7 amended: the projection has the id, the last topic assigned, and the
\* ids, in order, of the last list that was stored; a list kept out by the
\* setter (same length, only stored players) leaves the earlier ids in place.
C7_RoundTripLastStored ==
  caSnapshot.faithful
    => ToConversationAreaModel(area) =
         [id |-> caSnapshot.model.id, topic |-> caSnapshot.model.topic,
          occupantsByID |-> caSnapshot.storedIds]

\* after a reordering of the two stored players has been assigned, the
\* projection still has the order the area was made with
C7_Witness ==
  /\ caSnapshot.faithful
  /\ caLast.op = "setOccupants"
  /\ Len(caSnapshot.storedIds) = 2
  /\ caSnapshot.model.occupantsByID # caSnapshot.storedIds
  /\ ToConversationAreaModel(area).occupantsByID = caSnapshot.storedIds

\* a read that returned v
Reads(r, v) == r.error = NoError /\ r.value = v

\* C8: assigning video, elapsedTimeSec or isPlaying the value the field has
\* stores nothing, calls no listener, and the field then reads that value.
C8_CurrentValueIsNoOp ==
  /\ (vaLast.op = "setVideo" /\ vaLast.arg = vaModel.video)
       => /\ viewingArea = vaLast.pre
          /\ vaLast.calls = NoCalls
          /\ Reads(GetVideo(viewingArea), vaModel.video)
  /\ (vaLast.op = "setElapsedTimeSec" /\ vaLast.arg = vaModel.elapsedTimeSec)
       => /\ viewingArea = vaLast.pre
          /\ vaLast.calls = NoCalls
          /\ Reads(GetElapsedTimeSec(viewingArea), vaModel.elapsedTimeSec)
  /\ (vaLast.op = "setIsPlaying" /\ vaLast.arg = vaModel.isPlaying)
       => /\ viewingArea = vaLast.pre
          /\ vaLast.calls = NoCalls
          /\ Reads(GetIsPlaying(viewingArea), vaModel.isPlaying)

\* C9: assigning a field a value v2 other than the one it has calls every
\* registered listener of the field's event exactly once with v2, and the
\* field then reads v2.
C9_ChangeNotifiesOnce ==
  /\ (vaLast.op = "setVideo" /\ vaLast.arg # vaModel.video)
       => /\ CalledOnceEach(vaLast.calls, vaLast.pre.listeners["videoChange"],
                            "videoChange", vaLast.arg)
          /\ Reads(GetVideo(viewingArea), vaLast.arg)
  /\ (vaLast.op = "setElapsedTimeSec" /\ vaLast.arg # vaModel.elapsedTimeSec)
       => /\ CalledOnceEach(vaLast.calls,
                            vaLast.pre.listeners["progressChange"],
                            "progressChange", vaLast.arg)
          /\ Reads(GetElapsedTimeSec(viewingArea), vaLast.arg)
  /\ (vaLast.op = "setIsPlaying" /\ vaLast.arg # vaModel.isPlaying)
       => /\ CalledOnceEach(vaLast.calls,
                            vaLast.pre.listeners["playbackChange"],
                            "playbackChange", vaLast.arg)
          /\ Reads(GetIsPlaying(viewingArea), vaLast.arg)

\* the calls of one event among the calls of an operation
CallsOf(calls, event) == SelectSeq(calls, LAMBDA c : c.event = event)

\* C10: after updateFrom(model) the three fields read as in the model,
\* viewingAreaModel() is the model under the controller's own id, and when
\* all three fields differ from before each of the three events is
\* delivered exactly once with the model's value.
C10_UpdateFromAppliesModel ==
  vaLast.op = "updateFrom"
    => /\ vaLast.error = NoError
       /\ Reads(GetIsPlaying(viewingArea), vaLast.arg.isPlaying)
       /\ Reads(GetElapsedTimeSec(viewingArea), vaLast.arg.elapsedTimeSec)
       /\ Reads(GetVideo(viewingArea), vaLast.arg.video)
       /\ Reads(ViewingAreaModel(viewingArea),
                [vaLast.arg EXCEPT !.id = vaModel.id])
       /\ (/\ vaLast.arg.isPlaying # vaModel.isPlaying
           /\ vaLast.arg.elapsedTimeSec # vaModel.elapsedTimeSec
           /\ vaLast.arg.video # vaModel.video)
            => /\ CalledOnceEach(CallsOf(vaLast.calls, "playbackChange"),
                                 vaLast.pre.listeners["playbackChange"],
                                 "playbackChange", vaLast.arg.isPlaying)
               /\ CalledOnceEach(CallsOf(vaLast.calls, "progressChange"),
                                 vaLast.pre.listeners["progressChange"],
                                 "progressChange", vaLast.arg.elapsedTimeSec)
               /\ CalledOnceEach(CallsOf(vaLast.calls, "videoChange"),
                                 vaLast.pre.listeners["videoChange"],
                                 "videoChange", vaLast.arg.video)

\* C11: the id read from the controller is the id of the model it was
\* constructed from, in every state and whatever updateFrom is given.
C11_IdIsConstructionId ==
  vaLast.op = "getId" => (vaLast.error = NoError /\ vaLast.value = vaModel.id)

\* C12: viewingAreaModel() returns the id of the construction model and
\* the values the three fields read at that moment.
C12_ViewingAreaModelReflectsState ==
  vaLast.op = "viewingAreaModel"
    => /\ vaLast.error = NoError
       /\ vaLast.value.id = vaModel.id
       /\ Reads(GetIsPlaying(viewingArea), vaLast.value.isPlaying)
       /\ Reads(GetElapsedTimeSec(viewingArea), vaLast.value.elapsedTimeSec)
       /\ Reads(GetVideo(viewingArea), vaLast.value.video)

\* C13: no accessor or method of a constructed ViewingAreaController ever
\* raises an error.
C13_NoAccessorThrows == vaLast.error = NoError

\* the calls an event makes when its field differs, none when it does not
CallsIf(differs, listeners, event, payload) ==
  IF differs THEN Emit(listeners, event, payload) ELSE NoCalls

\* C19: updateFrom(model) calls the listeners of playbackChange, then of
\* progressChange, then of videoChange, each only when its field differs
\* from the current value, once per registration, and nobody else.
C19_UpdateFromEmitsForDifferingFields ==
  vaLast.op = "updateFrom"
    => vaLast.calls =
         CallsIf(vaLast.arg.isPlaying # vaModel.isPlaying,
                 vaLast.pre.listeners, "playbackChange", vaLast.arg.isPlaying)
         \o CallsIf(vaLast.arg.elapsedTimeSec # vaModel.elapsedTimeSec,
                    vaLast.pre.listeners, "progressChange",
                    vaLast.arg.elapsedTimeSec)
         \o CallsIf(vaLast.arg.video # vaModel.video,
                    vaLast.pre.listeners, "videoChange", vaLast.arg.video)

Abs(x) == IF x < 0 THEN 0 - x ELSE x

Called(calls) == [i \in 1..Len(calls) |-> calls[i].listener]

\* C15: an assignment that changes the topic (the occupants) calls the
\* registrations of topicChange (occupantsChange), each once and in the
\* order in which they were registered, within the assignment itself.
C15_ListenersCalledInRegistrationOrder ==
  /\ (caLast.op = "setTopic" /\ area.topic # caLast.pre.topic)
       => Called(caLast.calls) = caLast.pre.listeners["topicChange"]
  /\ (caLast.op = "setOccupants" /\ area.occupants # caLast.pre.occupants)
       => Called(caLast.calls) = caLast.pre.listeners["occupantsChange"]

\* two different listeners of occupantsChange, g registered before f, have
\* been called for a change of the occupants
C15_Witness ==
  /\ caLast.op = "setOccupants"
  /\ area.occupants # caLast.pre.occupants
  /\ caLast.pre.listeners["occupantsChange"] = <<"g", "f">>
  /\ Len(caLast.calls) = 2

\* C20: fromConversationAreaModel(model, playerFinder) calls playerFinder
\* once, with model.occupantsByID, and returns a controller with the
\* model's id and topic whose occupants are, element for element, what
\* playerFinder returned, whatever that is.
C20_FactoryUsesFinderResult ==
  caLast.op = "fromConversationAreaModel"
    => /\ caLast.result = <<caLast.arg.model.occupantsByID>>
       /\ area.id = caLast.arg.model.id
       /\ area.topic = caLast.arg.model.topic
       /\ area.occupants.items = caLast.arg.found.items

\* playerFinder returned one player for two ids
C20_Witness ==
  /\ caLast.op = "fromConversationAreaModel"
  /\ Len(caLast.arg.model.occupantsByID) = 2
  /\ Len(caLast.arg.found.items) = 1
  /\ Len(area.occupants.items) = 1

\* C17: once the effects of a mounted component have run, the state of its
\* useConversationAreaOccupants is the array the area holds, whatever was
\* assigned to the occupants since the component's first render.
C17_HookOccupantsAreTheAreaOccupants ==
  \A i \in 1..NumComponents :
    hooks[i].phase = "subscribed" => hooks[i].occupants = area.occupants

\* C18: at its first render and after every topicChange it is called for,
\* the state of useConversationAreaTopic is NO_TOPIC_STRING exactly when the
\* area has no topic, and the area's topic itself otherwise.
C18_HookTopicIsTopicOrNoTopicString ==
  \A i \in 1..NumComponents :
    (\/ hooksLast.op = "render" /\ hooksLast.arg = i
     \/ hooksLast.op = "setTopic" /\ i \in Notified(hooksLast.calls))
      => hooks[i].topic = IF area.topic = Undefined
                          THEN NO_TOPIC_STRING ELSE area.topic

\* C16: an emission calls the registrations that existed when it started:
\* one call for every registration added and not removed before its start,
\* none for a listener whose registrations had all been removed, and every
\* one of them also when a listener removes it while the emission is in
\* progress.
C16_EmissionCallsListenersAtItsStart ==
  /\ \A l \in ListenerIds :
       Count(emission.atStart, l) = emission.registeredAtStart[l]
  /\ Called(emission.called) \o Called(emission.queue) = emission.atStart
  /\ ~emission.active => Called(emission.called) = emission.atStart

\* the second listener of an emission in progress has been called although
\* the first one had removed it
C16_Witness ==
  /\ emission.active
  /\ Len(emission.called) = 2
  /\ emission.called[1].listener # emission.called[2].listener
  /\ emission.called[2].listener \notin Range(area.listeners["topicChange"])
  /\ emission.called[1].listener \in Range(area.listeners["topicChange"])

\* every player of items carries the id of a stored player without being
\* one of the stored player objects
CopiesOf(items, stored) ==
  /\ Len(items) = Len(stored)
  /\ Len(items) > 0
  /\ \A i \in 1..Len(items) :
       /\ PlayerId(items[i]) \in Range(IdsOf(stored))
       /\ items[i] \notin Range(stored)

\* C21: players are compared as objects, not by id: assigning occupants a
\* list as long as the stored one whose players carry the ids of stored
\* players but are other objects is a change; every occupantsChange
\* listener is called once with the list, which is then the stored array.
C21_SameIdsOtherObjectsIsAChange ==
  (caLast.op = "setOccupants"
     /\ CopiesOf(caLast.arg.items, caLast.pre.occupants.items))
    => /\ CalledOnceEach(caLast.calls,
                         caLast.pre.listeners["occupantsChange"],
                         "occupantsChange", caLast.arg)
       /\ area.occupants = caLast.arg

\* a list holding another player object with the id of the one stored
\* player has been assigned and a listener was called
C21_Witness ==
  /\ caLast.op = "setOccupants"
  /\ CopiesOf(caLast.arg.items, caLast.pre.occupants.items)
  /\ IdsOf(caLast.arg.items) = IdsOf(caLast.pre.occupants.items)
  /\ Len(caLast.calls) > 0
  /\ area.occupants = caLast.arg

\* the events of the calls
EventsOf(calls) == {calls[k].event : k \in 1..Len(calls)}

\* C23: an assignment to topic leaves the stored occupants array and the id
\* as they were and calls no occupantsChange listener; an assignment to
\* occupants leaves the topic and the id as they were and calls no
\* topicChange listener; whether or not the assignment changes anything.
C23_FieldsAreIndependent ==
  /\ caLast.op = "setTopic"
       => /\ area.occupants = caLast.pre.occupants
          /\ area.id = caLast.pre.id
          /\ "occupantsChange" \notin EventsOf(caLast.calls)
  /\ caLast.op = "setOccupants"
       => /\ area.topic = caLast.pre.topic
          /\ area.id = caLast.pre.id
          /\ "topicChange" \notin EventsOf(caLast.calls)

\* the occupants of an area with a topic have changed while a listener of
\* each event was registered
C23_Witness ==
  /\ caLast.op = "setOccupants"
  /\ area.occupants # caLast.pre.occupants
  /\ area.topic \in TopicStrings
  /\ Len(caLast.pre.listeners["topicChange"]) = 1
  /\ Len(caLast.pre.listeners["occupantsChange"]) = 1
  /\ Len(caLast.calls) = 1

InSync ==
  \A l \in ListenerIds :
    received.last[l] # NothingReceived => received.last[l] = area.topic

\* C24: a topicChange listener that is called reads its payload as the
\* area's topic; and once every assignment has returned, those made by
\* listeners from inside their call included, every listener was last
\* called with the topic the area holds.
C24_ListenersReadPayloadAndStayInSync ==
  /\ received.call.op = "call"
       => received.call.topic = received.call.payload
  /\ frames = <<>> => InSync

\* C24 amended: a listener reads its payload as the topic unless a listener
\* called earlier by the same emission has assigned the topic meanwhile;
\* and every listener was last called with the topic the area holds once
\* the assignments have returned, unless a listener assigned the topic
\* during the last assignment that changed it from outside.
C24_InSyncWithoutReentrantAssignment ==
  /\ (received.call.op = "call" /\ ~received.call.stale)
       => received.call.topic = received.call.payload
  /\ (frames = <<>> /\ ~received.reentered) => InSync

\* the second listener of an emission started from inside a listener's call
\* has been called, and reads its payload as the topic
C24_Witness ==
  /\ Len(frames) = 2
  /\ received.call.op = "call"
  /\ ~received.call.stale
  /\ received.call.listener = "g"
  /\ area.listeners["topicChange"] = <<"f", "g">>
  /\ Top(frames).queue = NoCalls
  /\ received.call.topic = received.call.payload

\* C22: once ViewingArea has rendered it shows the select-video modal
\* exactly when the viewing area has no video and the video player exactly
\* when it has one, whatever videoChange events have come since.
C22_ModalIffNoVideoPlayerIffVideo ==
  view.phase # "unmounted"
    => /\ view.shows = "modal" <=> vaModel.video = Undefined
       /\ view.shows = "player" <=> vaModel.video # Undefined

\* the components whose effects have run and that are still mounted
Subscribed == {i \in 1..NumComponents : hooks[i].phase = "subscribed"}

\* C26: on each of the two events the area has exactly one listener of every
\* component whose effects have run and that has not unmounted, and no
\* other listener; so an unmount takes away just the component's own
\* listeners, and an assignment made after it calls, and updates the state
\* of, the components still subscribed only.
C26_OneListenerPerSubscribedHook ==
  /\ \A e \in CAEvents :
       /\ \A i \in 1..NumComponents :
            Count(area.listeners[e], i) = IF i \in Subscribed THEN 1 ELSE 0
       /\ Len(area.listeners[e]) = Cardinality(Subscribed)
  /\ hooksLast.op \in {"setOccupants", "setTopic"}
       => Notified(hooksLast.calls) \subseteq Subscribed

\* component 1 has unmounted after its effects had run while component 2
\* stays subscribed
C26_Witness ==
  /\ hooksLast.op = "unmount"
  /\ hooksLast.arg = 1
  /\ hooks[2].phase = "subscribed"
  /\ area.listeners["occupantsChange"] = <<2>>
  /\ area.listeners["topicChange"] = <<2>>
====
